---- MODULE Spec2Model ----
(***************************************************************************)
(* A model of app.py, the webhook service that turns mentions of           *)
(* allow-listed users into a task list kept in the user's direct           *)
(* conversation with the bot.                                              *)
(*                                                                         *)
(* A Python str is a sequence of one-character strings ("CHECK" and        *)
(* "PARTY" stand for the single code points U+2705 and U+1F389).           *)
(* An Optional[str] is a sequence of at most one str: <<>> is None.        *)
(* A message timestamp is a positive number, and 0 is None.                *)
(***************************************************************************)
EXTENDS Integers, Sequences, FiniteSets, TLC

VARIABLES conv, clock, handler, delivered, faults, codec

vars == <<conv, clock, handler, delivered, faults, codec>>

(***************************************************************************)
(* Python's str operations, as far as app.py uses them.                    *)
(***************************************************************************)
Digits == <<"0", "1", "2", "3", "4", "5", "6", "7", "8", "9">>

\* \d of the re module
DigitSet == {Digits[d] : d \in 1..10}

DigitVal(c) == (CHOOSE d \in 1..10 : Digits[d] = c) - 1

\* \s of the re module and the default of str.strip() and str.split()
SpaceSet == {" ", "\n", "\t", "\r"}

\* the line boundaries of str.splitlines()
LineBreakSet == {"\n", "\r"}

Min(a, b) == IF a <= b THEN a ELSE b

Drop(s, n) == SubSeq(s, n + 1, Len(s))

Take(s, n) == SubSeq(s, 1, Min(n, Len(s)))

\* s.startswith(p)
StartsWith(s, p) == Len(p) <= Len(s) /\ SubSeq(s, 1, Len(p)) = p

\* s.endswith(p)
EndsWith(s, p) == Len(p) <= Len(s) /\ SubSeq(s, Len(s) - Len(p) + 1, Len(s)) = p

\* the least member of a non-empty set of numbers
Least(S) == CHOOSE x \in S : \A y \in S : x <= y

\* the number of leading characters of s that are in cs
SpanLen(s, cs) ==
    LET out == {i \in 1..Len(s) : s[i] \notin cs}
    IN  IF out = {} THEN Len(s) ELSE Least(out) - 1

\* the number of trailing characters of s that are in cs
SpanLenRight(s, cs) ==
    LET out == {i \in 1..Len(s) : s[i] \notin cs}
    IN  IF out = {} THEN Len(s) ELSE Len(s) + Least({-i : i \in out})

\* s.strip(chars)
StripSet(s, cs) ==
    IF SpanLen(s, cs) = Len(s) THEN <<>>
    ELSE SubSeq(s, SpanLen(s, cs) + 1, Len(s) - SpanLenRight(s, cs))

\* s.strip()
Strip(s) == StripSet(s, SpaceSet)

\* the pieces of s from index i on between the characters of seps, empty ones kept
RECURSIVE Pieces(_, _, _)
Pieces(s, seps, i) ==
    LET at == {j \in i..Len(s) : s[j] \in seps}
    IN  IF at = {} THEN <<SubSeq(s, i, Len(s))>>
        ELSE <<SubSeq(s, i, Least(at) - 1)>> \o Pieces(s, seps, Least(at) + 1)

\* s.splitlines(): no last empty line after a final line break, none at all for ""
SplitLines(s) ==
    LET ps == Pieces(s, LineBreakSet, 1)
    IN  IF ps[Len(ps)] = <<>> THEN SubSeq(ps, 1, Len(ps) - 1) ELSE ps

\* s.split(): the words between runs of whitespace
Split(s) == SelectSeq(Pieces(s, SpaceSet, 1), LAMBDA w : w # <<>>)

\* the least index from i on where p occurs in s, or 0
FindFrom(s, p, i) ==
    LET at == {j \in i..(Len(s) - Len(p) + 1) : SubSeq(s, j, j + Len(p) - 1) = p}
    IN  IF at = {} THEN 0 ELSE Least(at)

\* s.replace(old, ""), old not empty
RECURSIVE RemoveAll(_, _)
RemoveAll(s, old) ==
    LET i == FindFrom(s, old, 1)
    IN  IF i = 0 THEN s
        ELSE SubSeq(s, 1, i - 1) \o RemoveAll(Drop(s, i + Len(old) - 1), old)

\* s.split(sep, 1)[0]
BeforeFirst(s, sep) ==
    LET i == FindFrom(s, <<sep>>, 1) IN IF i = 0 THEN s ELSE SubSeq(s, 1, i - 1)

\* s.split(sep, 1)[1], sep in s
AfterFirst(s, sep) == Drop(s, FindFrom(s, <<sep>>, 1))

\* str(n), n >= 0
RECURSIVE IntToStr(_)
IntToStr(n) ==
    IF n < 10 THEN <<Digits[n + 1]>>
    ELSE Append(IntToStr(n \div 10), Digits[(n % 10) + 1])

\* int(ds), ds a non-empty run of digits
RECURSIVE StrToInt(_)
StrToInt(ds) ==
    IF Len(ds) = 1 THEN DigitVal(ds[1])
    ELSE 10 * StrToInt(SubSeq(ds, 1, Len(ds) - 1)) + DigitVal(ds[Len(ds)])

\* sep.join(parts)
RECURSIVE Join(_, _)
Join(sep, parts) ==
    IF parts = <<>> THEN <<>>
    ELSE IF Len(parts) = 1 THEN parts[1]
    ELSE parts[1] \o sep \o Join(sep, Tail(parts))

\* str.lower() on the letters of the removal command
Lower(c) ==
    CASE c = "R" -> "r" [] c = "E" -> "e" [] c = "M" -> "m" [] c = "O" -> "o"
      [] c = "V" -> "v" [] c = "T" -> "t" [] c = "A" -> "a" [] c = "S" -> "s"
      [] c = "K" -> "k" [] OTHER -> c

LowerStr(s) == [i \in 1..Len(s) |-> Lower(s[i])]

(***************************************************************************)
(* The text of a task record (post_tasklist) and its parse                 *)
(* (get_latest_tasklist).                                                  *)
(***************************************************************************)
HEADER == <<"R", "e", "m", "a", "i", "n", "i", "n", "g", " ", "t", "a", "s", "k", "s", ":">>

REMOVED_MARK == <<"CHECK", " ", "R", "e", "m", "o", "v", "e", "d", ":">>

SENTINEL ==
    <<"PARTY", " ", "A", "l", "l", " ", "t", "a", "s", "k", "s", " ",
      "c", "o", "m", "p", "l", "e", "t", "e", "d", "!">>

\* truth of an Optional[str]: neither None nor ""
Truthy(opt) == opt # <<>> /\ opt[1] # <<>>

\* f"{i+1}. {task}"
NumberedLine(i, task) == IntToStr(i) \o <<".", " ">> \o task

\* the body post_tasklist builds
Encode(tasks, removed_task) ==
    LET body == IF tasks # <<>>
                THEN HEADER \o <<"\n">> \o
                     Join(<<"\n">>, [i \in 1..Len(tasks) |-> NumberedLine(i, tasks[i])])
                ELSE SENTINEL
    IN  IF Truthy(removed_task)
        THEN REMOVED_MARK \o <<" ">> \o removed_task[1] \o <<"\n", "\n">> \o body
        ELSE body

\* re.match(r"^\d+\.", line)
IsNumbered(line) ==
    LET n == SpanLen(line, DigitSet)
    IN  n > 0 /\ Len(line) > n /\ line[n + 1] = "."

\* re.sub(r"^\d+\.\s*", "", line), line numbered
Unnumber(line) ==
    LET rest == Drop(line, SpanLen(line, DigitSet) + 1)
    IN  Drop(rest, SpanLen(rest, SpaceSet))

\* the tasks get_latest_tasklist reads from a body
Decode(text) ==
    LET lines == SelectSeq(SplitLines(text), LAMBDA line : IsNumbered(Strip(line)))
    IN  [i \in 1..Len(lines) |-> Unnumber(Strip(lines[i]))]

\* the test get_latest_tasklist makes of a message's text
IsRecord(text) ==
    \/ StartsWith(text, HEADER)
    \/ StartsWith(text, REMOVED_MARK)
    \/ StartsWith(text, SENTINEL)

(***************************************************************************)
(* The task add_task builds.                                               *)
(***************************************************************************)
TRUNCATE_AT == 200

ELLIPSIS == <<".", ".", ".">>

\* the ellipsis from 200 characters on instead of from 201
TruncateFrom200(visible_text) ==
    Take(visible_text, TRUNCATE_AT) \o
    (IF Len(visible_text) >= TRUNCATE_AT THEN ELLIPSIS ELSE <<>>)

\* visible_text[:200] + ("..." if len(visible_text) > 200 else "")
Truncate(visible_text) ==
    Take(visible_text, TRUNCATE_AT) \o
    (IF Len(visible_text) > TRUNCATE_AT THEN ELLIPSIS ELSE <<>>)

\* full_text.replace(mention_token, "").strip()
VisibleText(full_text, mention_token) == Strip(RemoveAll(full_text, mention_token))

\* f"{truncated} (from {sender_name}) - {link}"
NewTask(truncated, sender_name, link) ==
    truncated \o <<" ", "(", "f", "r", "o", "m", " ">> \o sender_name \o
    <<")", " ", "-", " ">> \o link

DISPLAY_NAME == <<"S", "a", "m">>

PERMALINK == <<"h", "t", "t", "p", ":", "/", "/", "l">>

NO_LINK == <<"#">>

(***************************************************************************)
(* Identifiers, the allow-list and the chat platform's conversations.      *)
(***************************************************************************)
U_ALLOWED == <<"U", "0", "3", "A", "A", "1", "Z", "B", "H", "5", "F">>

ALLOWED_USERS == {U_ALLOWED}

\* a user outside the allow-list, the sender of the channel messages, the bot's user
U_OTHER == <<"U", "2">>

U_SENDER == <<"S", "9">>

U_BOT == <<"U", "B">>

\* the users whose direct conversation with the bot is modelled
DmUsers == {U_ALLOWED, U_OTHER}

HISTORY_LIMIT == 50

\* conversations_history without the limit
HistoryUnbounded(messages) == messages

\* conversations_history(channel, limit=50): the most recent messages, most recent first
History(messages) == Take(messages, HISTORY_LIMIT)

\* the scan of get_latest_tasklist taking the last message of the page with a record marker
ScanHistoryOldest(messages) ==
    LET at == {i \in 1..Len(messages) : messages[i].text # <<>> /\ IsRecord(messages[i].text)}
        last == CHOOSE i \in at : \A j \in at : j <= i
    IN  IF at = {} THEN [old_ts |-> 0, tasks |-> <<>>, bot |-> TRUE]
        ELSE [old_ts |-> messages[last].ts, tasks |-> Decode(messages[last].text),
              bot |-> messages[last].bot]

\* the scan of get_latest_tasklist: the first message of the page with a record marker
ScanHistory(messages) ==
    LET at == {i \in 1..Len(messages) : messages[i].text # <<>> /\ IsRecord(messages[i].text)}
    IN  IF at = {} THEN [old_ts |-> 0, tasks |-> <<>>, bot |-> TRUE]
        ELSE [old_ts |-> messages[Least(at)].ts, tasks |-> Decode(messages[Least(at)].text),
              bot |-> messages[Least(at)].bot]

\* what get_latest_tasklist returns for a conversation whose history can be listed
GetLatest(messages) == ScanHistory(History(messages))

\* chat_postMessage: the message becomes the most recent of the conversation
PostMessage(messages, ts, text) == <<[ts |-> ts, bot |-> TRUE, text |-> text]>> \o messages

\* a message the user writes in the direct conversation
UserMessage(messages, ts, text) == <<[ts |-> ts, bot |-> FALSE, text |-> text]>> \o messages

\* a chat_delete that takes the most recent message, whatever the timestamp
DeleteNewest(messages, ts) == Tail(messages)

\* chat_delete: the message with that timestamp is gone
DeleteMessage(messages, ts) == SelectSeq(messages, LAMBDA m : m.ts # ts)

HasMessage(messages, ts) == \E i \in 1..Len(messages) : messages[i].ts = ts

NO_TASKS_NOTICE ==
    <<"N", "o", " ", "t", "a", "s", "k", "s", " ", "t", "o", " ", "r", "e", "m", "o", "v", "e", ".">>

\* f"Task {task_num} does not exist."
OutOfRangeNotice(task_num) ==
    <<"T", "a", "s", "k", " ">> \o IntToStr(task_num) \o
    <<" ", "d", "o", "e", "s", " ", "n", "o", "t", " ", "e", "x", "i", "s", "t", ".">>

(***************************************************************************)
(* slack_events: the classification of an inbound payload.                 *)
(***************************************************************************)
REMOVE_COMMAND == <<"r", "e", "m", "o", "v", "e", " ", "t", "a", "s", "k">>

\* re.match(r"remove task\s+(\d+)", text.strip(), re.I): <<>> for no match, else <<n>>
RemoveMatch(text) ==
    LET s == Strip(text)
        rest == Drop(s, Len(REMOVE_COMMAND))
        digits == Drop(rest, SpanLen(rest, SpaceSet))
    IN  IF /\ LowerStr(Take(s, Len(REMOVE_COMMAND))) = REMOVE_COMMAND
           /\ SpanLen(rest, SpaceSet) >= 1
           /\ SpanLen(digits, DigitSet) >= 1
        THEN <<StrToInt(Take(digits, SpanLen(digits, DigitSet)))>>
        ELSE <<>>

\* the branch slack_events takes for a payload
Classify(ev) ==
    IF ev.challenge THEN "challenge"
    ELSE IF ev.type # "message" THEN "ignore"
    ELSE IF ev.subtype # "" THEN "ignore"
    ELSE IF ev.channel_type = "im" /\ RemoveMatch(ev.text) # <<>> THEN "remove"
    ELSE "mentions"

(***************************************************************************)
(* handle_mentions: the tokens of a message and the users they name.       *)
(***************************************************************************)
USER_OPEN == <<"<", "@">>

GROUP_OPEN == <<"<", "!", "s", "u", "b", "t", "e", "a", "m", "^">>

IsUserToken(word) == StartsWith(word, USER_OPEN) /\ EndsWith(word, <<">">>)

IsGroupToken(word) ==
    ~IsUserToken(word) /\ StartsWith(word, GROUP_OPEN) /\ EndsWith(word, <<">">>)

\* word.strip("<@>"), cut at the first "|"
MentionOf(word) == BeforeFirst(StripSet(word, {"<", "@", ">"}), "|")

\* handle_mentions without the allow-list test
IsAnyUserMention(mention) == StartsWith(mention, <<"U">>)

\* the test handle_mentions makes of a user mention
IsAllowedMention(mention) == StartsWith(mention, <<"U">>) /\ mention \in ALLOWED_USERS

\* the test handle_mentions makes of a member of a group
IsAllowedMember(uid) == uid \in ALLOWED_USERS

\* word[1:-1], after the first "^", cut at the first "|"
GroupOf(word) == BeforeFirst(AfterFirst(SubSeq(word, 2, Len(word) - 1), "^"), "|")

\* whether handle_mentions makes a call of the platform for the word
Actionable(word) ==
    \/ IsUserToken(word) /\ IsAllowedMention(MentionOf(word))
    \/ IsGroupToken(word)

\* the least index from i on of a word that satisfies Actionable, or 0
NextWord(words, i) ==
    LET at == {j \in i..Len(words) : Actionable(words[j])}
    IN  IF at = {} THEN 0 ELSE Least(at)

\* the least index from i on of a member that is allow-listed, or 0
NextMember(members, i) ==
    LET at == {j \in i..Len(members) : IsAllowedMember(members[j])}
    IN  IF at = {} THEN 0 ELSE Least(at)

\* get_username: the display name, or f"<@{user_id}>" when the lookup fails
FallbackName(user_id) == USER_OPEN \o user_id \o <<">">>

(***************************************************************************)
(* The handling of one inbound payload by one worker.                      *)
(***************************************************************************)
Workers == {1, 2}

MaxEvents == 3

MaxConcurrentEvents == 2

MaxFaults == 1

Off ==
    [pc |-> "off", ev |-> <<>>, words |-> <<>>, wi |-> 0, members |-> <<>>, mi |-> 0,
     op |-> "", user_id |-> <<>>, token |-> <<>>, new_task |-> <<>>, task_num |-> 0,
     im_channel |-> <<>>, old_ts |-> 0, old_bot |-> TRUE, tasks |-> <<>>,
     removed_task |-> <<>>, notice |-> <<>>, resp |-> "", calls |-> <<>>,
     requests |-> <<>>, lookups |-> <<>>, prev |-> <<>>]

Idle == [Off EXCEPT !.pc = "idle"]

\* the codec of SpecCodec at rest: Spec and SpecSeq leave it so
CodecIdle == [pc |-> "off", tasks |-> <<>>, removed |-> <<>>, body |-> <<>>, decoded |-> <<>>]

\* the for loops of handle_mentions, up to the next call of the platform
ContinueWords(h, i) ==
    LET j == NextWord(h.words, i)
    IN  IF j = 0 THEN [h EXCEPT !.pc = "done", !.resp = "ok", !.wi = Len(h.words) + 1]
        ELSE [h EXCEPT !.pc = "word", !.wi = j]

\* the loop over the members ending the loop over the words as well
ContinueMembersOnly(h, i) ==
    LET j == NextMember(h.members, i)
    IN  IF j = 0 THEN [h EXCEPT !.pc = "done", !.resp = "ok", !.members = <<>>, !.mi = 0]
        ELSE [h EXCEPT !.pc = "member", !.mi = j]

ContinueMembers(h, i) ==
    LET j == NextMember(h.members, i)
    IN  IF j = 0 THEN ContinueWords([h EXCEPT !.members = <<>>, !.mi = 0], h.wi + 1)
        ELSE [h EXCEPT !.pc = "member", !.mi = j]

\* a return of add_task that ends the loops of handle_mentions
ReturnEndsLoops(h) == [h EXCEPT !.pc = "done", !.resp = "ok"]

\* the return of add_task or remove_task to its caller
Return(h) ==
    IF h.op = "remove" THEN [h EXCEPT !.pc = "done", !.resp = "ok"]
    ELSE IF h.members # <<>> THEN ContinueMembers(h, h.mi + 1)
    ELSE ContinueWords(h, h.wi + 1)


\* the entry into add_task: the task text, with the permalink and the sender's name
StartAdd(h, user_id, token, link, sender_name) ==
    [h EXCEPT !.pc = "get", !.op = "add", !.user_id = user_id, !.token = token,
              !.new_task = NewTask(Truncate(VisibleText(h.ev.text, token)), sender_name, link),
              !.requests = Append(@, [wi |-> h.wi, user_id |-> user_id])]

\* add_task with the new task put first instead of last
AfterGetPrepend(h, found) ==
    LET g == [h EXCEPT !.im_channel = h.user_id, !.old_ts = found.old_ts,
                       !.old_bot = found.bot, !.removed_task = <<>>, !.notice = <<>>]
    IN  IF h.op = "add"
        THEN [g EXCEPT !.pc = "post", !.tasks = <<h.new_task>> \o found.tasks]
        ELSE IF found.tasks = <<>>
        THEN [g EXCEPT !.pc = "notice", !.tasks = <<>>, !.notice = NO_TASKS_NOTICE]
        ELSE IF h.task_num < 1 \/ h.task_num > Len(found.tasks)
        THEN [g EXCEPT !.pc = "notice", !.tasks = found.tasks,
                       !.notice = OutOfRangeNotice(h.task_num)]
        ELSE [g EXCEPT !.pc = "post",
                       !.tasks = SubSeq(found.tasks, 1, h.task_num - 1) \o
                                 SubSeq(found.tasks, h.task_num + 1, Len(found.tasks)),
                       !.removed_task = <<found.tasks[h.task_num]>>]

\* remove_task with the range test task_num < 0: tasks.pop(-1) takes the last task
AfterGetFromZero(h, found) ==
    LET g == [h EXCEPT !.im_channel = h.user_id, !.old_ts = found.old_ts,
                       !.old_bot = found.bot, !.removed_task = <<>>, !.notice = <<>>]
        k == IF h.task_num = 0 THEN Len(found.tasks) ELSE h.task_num
    IN  IF h.op = "add"
        THEN [g EXCEPT !.pc = "post", !.tasks = Append(found.tasks, h.new_task)]
        ELSE IF found.tasks = <<>>
        THEN [g EXCEPT !.pc = "notice", !.tasks = <<>>, !.notice = NO_TASKS_NOTICE]
        ELSE IF h.task_num < 0 \/ h.task_num > Len(found.tasks)
        THEN [g EXCEPT !.pc = "notice", !.tasks = found.tasks,
                       !.notice = OutOfRangeNotice(h.task_num)]
        ELSE [g EXCEPT !.pc = "post",
                       !.tasks = SubSeq(found.tasks, 1, k - 1) \o
                                 SubSeq(found.tasks, k + 1, Len(found.tasks)),
                       !.removed_task = <<found.tasks[k]>>]

\* add_task and remove_task after get_latest_tasklist has returned a conversation
AfterGet(h, found) ==
    LET g == [h EXCEPT !.im_channel = h.user_id, !.old_ts = found.old_ts,
                       !.old_bot = found.bot, !.removed_task = <<>>, !.notice = <<>>]
    IN  IF h.op = "add"
        THEN [g EXCEPT !.pc = "post", !.tasks = Append(found.tasks, h.new_task)]
        ELSE IF found.tasks = <<>>
        THEN [g EXCEPT !.pc = "notice", !.tasks = <<>>, !.notice = NO_TASKS_NOTICE]
        ELSE IF h.task_num < 1 \/ h.task_num > Len(found.tasks)
        THEN [g EXCEPT !.pc = "notice", !.tasks = found.tasks,
                       !.notice = OutOfRangeNotice(h.task_num)]
        ELSE [g EXCEPT !.pc = "post",
                       !.tasks = SubSeq(found.tasks, 1, h.task_num - 1) \o
                                 SubSeq(found.tasks, h.task_num + 1, Len(found.tasks)),
                       !.removed_task = <<found.tasks[h.task_num]>>]

Call(op, ts, ok) == [op |-> op, ts |-> ts, ok |-> ok]

(***************************************************************************)
(* The payloads the platform delivers.                                     *)
(***************************************************************************)
Token(user_id) == USER_OPEN \o user_id \o <<">">>

TEXT_A == Token(U_ALLOWED) \o <<" ", "a">>

TEXT_B ==
    USER_OPEN \o U_ALLOWED \o <<"|", "b", "o", "b", ">", " ">> \o Token(U_OTHER) \o
    <<" ">> \o Token(U_ALLOWED) \o <<" ", "b">>

\* a message of three lines, the second one "1."
TEXT_LINES == Token(U_ALLOWED) \o <<" ", "x", "\n", "1", ".", "\n", "y">>

TEXT_GROUP == GROUP_OPEN \o <<"S", "1", "|", "d", "e", "v", "s", ">", " ", "c">>

TEXT_REMOVE_0 == REMOVE_COMMAND \o <<" ", "0">>

TEXT_REMOVE_1 == <<"R", "e", "m", "o", "v", "e", " ", "T", "A", "S", "K", " ", " ", "1">>

TEXT_REMOVE_2 == REMOVE_COMMAND \o <<" ", "2">>

\* a message of the user's own that starts like a record
TEXT_USER_RECORD == HEADER \o <<"\n", "1", ".">>

Event(type, subtype, channel_type, user, bot, text) ==
    [challenge |-> FALSE, type |-> type, subtype |-> subtype,
     channel_type |-> channel_type, user |-> user, bot |-> bot, text |-> text]

ChannelEvents ==
    {Event("message", "", "channel", U_SENDER, FALSE, t) : t \in {TEXT_A, TEXT_B, TEXT_LINES, TEXT_GROUP}}

DirectEvents ==
    {Event("message", "", "im", U_ALLOWED, FALSE, t) :
        t \in {TEXT_REMOVE_0, TEXT_REMOVE_1, TEXT_REMOVE_2, TEXT_USER_RECORD}}
    \cup {Event("message", "", "im", U_OTHER, FALSE, TEXT_REMOVE_1)}

OtherEvents ==
    {[Event("", "", "", <<>>, FALSE, <<>>) EXCEPT !.challenge = TRUE],
     Event("reaction_added", "", "channel", U_SENDER, FALSE, <<>>),
     Event("message", "message_changed", "channel", U_SENDER, FALSE, TEXT_A)}

\* the bot's own most recent message of a direct conversation, delivered as an event
EchoEvents(convs) ==
    {Event("message", st, "im", U_BOT, TRUE, convs[u][1].text) :
        st \in {"", "bot_message"},
        u \in {v \in DmUsers : convs[v] # <<>> /\ convs[v][1].bot}}

CHATTER == <<"h", "i">>

\* the lists usergroups_users_list answers with
GroupMemberLists == {<<>>, <<U_OTHER, U_ALLOWED>>, <<U_ALLOWED, U_ALLOWED>>}

\* a message the user writes in the direct conversation is in its history
IsUserDirectMessage(ev) ==
    ~ev.challenge /\ ev.type = "message" /\ ev.subtype = "" /\ ev.channel_type = "im" /\ ~ev.bot

(***************************************************************************)
(* The steps of a worker: one per call of the platform.                    *)
(***************************************************************************)
\* what the request a worker has just answered was: its payload, the list it last held
\* and the assignments it made (kept for the properties; the program keeps nothing)
Handled(h) ==
    IF h.pc = "done"
    THEN <<[ev |-> h.ev, tasks |-> h.tasks, requests |-> h.requests, calls |-> h.calls]>>
    ELSE <<>>

\* slack_events, up to the first call of the platform
Receive(h, ev) ==
    LET r == [Idle EXCEPT !.ev = ev, !.prev = Handled(h)]
        c == Classify(ev)
    IN  IF c = "challenge" THEN [r EXCEPT !.pc = "done", !.resp = "challenge"]
        ELSE IF c = "ignore" THEN [r EXCEPT !.pc = "done", !.resp = "ok"]
        ELSE IF c = "remove"
        THEN [r EXCEPT !.pc = "get", !.op = "remove", !.user_id = ev.user,
                       !.task_num = RemoveMatch(ev.text)[1]]
        ELSE ContinueWords([r EXCEPT !.words = Split(ev.text)], 1)

EventBound == IF \E p \in Workers : handler[p].pc = "off" THEN MaxEvents ELSE MaxConcurrentEvents

Deliver(p) ==
    /\ handler[p].pc \in {"idle", "done"}
    /\ delivered < EventBound
    /\ \E ev \in ChannelEvents \cup DirectEvents \cup OtherEvents \cup EchoEvents(conv) :
          /\ handler' = [handler EXCEPT ![p] = Receive(handler[p], ev)]
          /\ IF IsUserDirectMessage(ev)
             THEN /\ conv' = [conv EXCEPT ![ev.user] = UserMessage(@, clock, ev.text)]
                  /\ clock' = clock + 1
             ELSE UNCHANGED <<conv, clock>>
    /\ delivered' = delivered + 1
    /\ UNCHANGED <<faults, codec>>

\* handle_mentions at a user mention: get_permalink and get_username, then add_task
WordUser(p) ==
    LET h == handler[p] IN
    /\ h.pc = "word"
    /\ IsUserToken(h.words[h.wi])
    /\ \E link_ok \in BOOLEAN, name_ok \in BOOLEAN :
          LET failed == (IF link_ok THEN 0 ELSE 1) + (IF name_ok THEN 0 ELSE 1) IN
          /\ faults + failed <= MaxFaults
          /\ faults' = faults + failed
          /\ handler' = [handler EXCEPT ![p] =
                StartAdd(h, MentionOf(h.words[h.wi]), h.words[h.wi],
                         IF link_ok THEN PERMALINK ELSE NO_LINK,
                         IF name_ok THEN DISPLAY_NAME ELSE FallbackName(h.ev.user))]
    /\ UNCHANGED <<conv, clock, delivered, codec>>

\* handle_mentions at a group mention: get_usergroup_members
WordGroup(p) ==
    LET h == handler[p] IN
    /\ h.pc = "word"
    /\ IsGroupToken(h.words[h.wi])
    /\ \/ \E members \in GroupMemberLists :
             /\ handler' = [handler EXCEPT ![p] =
                   ContinueMembers([h EXCEPT !.members = members,
                       !.lookups = Append(@, [wi |-> h.wi, group |-> GroupOf(h.words[h.wi]),
                                              members |-> members])], 1)]
             /\ UNCHANGED faults
       \/ /\ faults < MaxFaults
          /\ faults' = faults + 1
          /\ handler' = [handler EXCEPT ![p] =
                ContinueMembers([h EXCEPT !.members = <<>>,
                    !.lookups = Append(@, [wi |-> h.wi, group |-> GroupOf(h.words[h.wi]),
                                           members |-> <<>>])], 1)]
    /\ UNCHANGED <<conv, clock, delivered, codec>>

\* handle_mentions at an allow-listed member of the group: add_task
Member(p) ==
    LET h == handler[p] IN
    /\ h.pc = "member"
    /\ \E link_ok \in BOOLEAN, name_ok \in BOOLEAN :
          LET failed == (IF link_ok THEN 0 ELSE 1) + (IF name_ok THEN 0 ELSE 1) IN
          /\ faults + failed <= MaxFaults
          /\ faults' = faults + failed
          /\ handler' = [handler EXCEPT ![p] =
                StartAdd(h, h.members[h.mi], h.words[h.wi],
                         IF link_ok THEN PERMALINK ELSE NO_LINK,
                         IF name_ok THEN DISPLAY_NAME ELSE FallbackName(h.ev.user))]
    /\ UNCHANGED <<conv, clock, delivered, codec>>

\* get_latest_tasklist: conversations_open, then conversations_history
Get(p) ==
    LET h == handler[p] IN
    /\ h.pc = "get"
    /\ \/ /\ handler' = [handler EXCEPT ![p] =
                AfterGet([h EXCEPT !.calls = Append(@, Call("history", GetLatest(conv[h.user_id]).old_ts, TRUE))],
                         GetLatest(conv[h.user_id]))]
          /\ UNCHANGED faults
       \/ /\ faults < MaxFaults
          /\ faults' = faults + 1
          /\ handler' = [handler EXCEPT ![p] =
                AfterGet([h EXCEPT !.calls = Append(@, Call("history", 0, FALSE))],
                         [old_ts |-> 0, tasks |-> <<>>, bot |-> TRUE])]
       \/ /\ faults < MaxFaults
          /\ faults' = faults + 1
          /\ handler' = [handler EXCEPT ![p] =
                Return([h EXCEPT !.im_channel = <<>>, !.old_ts = 0, !.tasks = <<>>,
                                 !.calls = Append(@, Call("open", 0, FALSE))])]
    /\ UNCHANGED <<conv, clock, delivered, codec>>

\* post_tasklist with the delete outside the try of the post
AfterPostAlwaysDelete(h, ts, ok) ==
    LET g == [h EXCEPT !.calls = Append(@, Call("post", ts, ok))]
    IN  IF h.old_ts # 0 THEN [g EXCEPT !.pc = "delete"] ELSE Return(g)

\* post_tasklist after chat_postMessage: the delete only after a post that succeeded
AfterPost(h, ts, ok) ==
    LET g == [h EXCEPT !.calls = Append(@, Call("post", ts, ok))]
    IN  IF ok /\ h.old_ts # 0 THEN [g EXCEPT !.pc = "delete"] ELSE Return(g)

\* post_tasklist: chat_postMessage of the encoded list
Post(p) ==
    LET h == handler[p] IN
    /\ h.pc = "post"
    /\ \/ /\ conv' = [conv EXCEPT ![h.im_channel] =
                         PostMessage(@, clock, Encode(h.tasks, h.removed_task))]
          /\ clock' = clock + 1
          /\ handler' = [handler EXCEPT ![p] = AfterPost(h, clock, TRUE)]
          /\ UNCHANGED faults
       \/ /\ faults < MaxFaults
          /\ faults' = faults + 1
          /\ handler' = [handler EXCEPT ![p] = AfterPost(h, 0, FALSE)]
          /\ UNCHANGED <<conv, clock>>
    /\ UNCHANGED <<delivered, codec>>

\* post_tasklist: chat_delete of the old record
Delete(p) ==
    LET h == handler[p] IN
    /\ h.pc = "delete"
    /\ \/ /\ HasMessage(conv[h.im_channel], h.old_ts)
          /\ conv' = [conv EXCEPT ![h.im_channel] = DeleteMessage(@, h.old_ts)]
          /\ handler' = [handler EXCEPT ![p] =
                Return([h EXCEPT !.calls = Append(@, Call("delete", h.old_ts, TRUE))])]
          /\ UNCHANGED faults
       \/ /\ ~HasMessage(conv[h.im_channel], h.old_ts)
          /\ handler' = [handler EXCEPT ![p] =
                Return([h EXCEPT !.calls = Append(@, Call("delete", h.old_ts, FALSE))])]
          /\ UNCHANGED <<conv, faults>>
       \/ /\ faults < MaxFaults
          /\ faults' = faults + 1
          /\ handler' = [handler EXCEPT ![p] =
                Return([h EXCEPT !.calls = Append(@, Call("delete", h.old_ts, FALSE))])]
          /\ UNCHANGED conv
    /\ UNCHANGED <<clock, delivered, codec>>

\* remove_task: chat_postMessage of a notice, outside any try
Notice(p) ==
    LET h == handler[p] IN
    /\ h.pc = "notice"
    /\ \/ /\ conv' = [conv EXCEPT ![h.im_channel] = PostMessage(@, clock, h.notice)]
          /\ clock' = clock + 1
          /\ handler' = [handler EXCEPT ![p] =
                Return([h EXCEPT !.calls = Append(@, Call("notice", clock, TRUE))])]
          /\ UNCHANGED faults
       \/ /\ faults < MaxFaults
          /\ faults' = faults + 1
          /\ handler' = [handler EXCEPT ![p] =
                [h EXCEPT !.pc = "done", !.resp = "error",
                          !.calls = Append(@, Call("notice", 0, FALSE))]]
          /\ UNCHANGED <<conv, clock>>
    /\ UNCHANGED <<delivered, codec>>

\* the user writes n messages without mention or command in the direct conversation:
\* each is delivered and handled without a call of the platform
Burst(n) ==
    /\ \E p \in Workers : handler[p].pc \in {"idle", "done"}
    /\ delivered < EventBound
    /\ conv' = [conv EXCEPT ![U_ALLOWED] =
                   [i \in 1..n |-> [ts |-> clock + n - i, bot |-> FALSE, text |-> CHATTER]] \o @]
    /\ clock' = clock + n
    /\ delivered' = delivered + 1
    /\ UNCHANGED <<handler, faults, codec>>

Next ==
    \/ \E p \in Workers :
          \/ Deliver(p)
          \/ WordUser(p)
          \/ WordGroup(p)
          \/ Member(p)
          \/ Get(p)
          \/ Post(p)
          \/ Delete(p)
          \/ Notice(p)
    \/ \E n \in {HISTORY_LIMIT - 2, HISTORY_LIMIT} : Burst(n)

InitConversations ==
    /\ conv = [u \in DmUsers |-> <<>>]
    /\ clock = 1
    /\ delivered = 0
    /\ faults = 0
    /\ codec = CodecIdle

\* webhook deliveries handled by two workers at once
Init == InitConversations /\ handler = [p \in Workers |-> Idle]

Spec == Init /\ [][Next]_vars

\* events handled one at a time
InitSeq == InitConversations /\ handler = [p \in Workers |-> IF p = 1 THEN Idle ELSE Off]

SpecSeq == InitSeq /\ [][Next]_vars

(***************************************************************************)
(* Messages that mention a group and a user, handled one at a time.        *)
(***************************************************************************)
MaxGroupEvents == 2

TEXT_GROUP_USER ==
    GROUP_OPEN \o <<"S", "1", "|", "d", "e", "v", "s", ">", " ">> \o Token(U_ALLOWED) \o <<" ", "c">>

TEXT_USER_GROUP == Token(U_ALLOWED) \o <<" ">> \o GROUP_OPEN \o <<"S", "2", ">", " ", "d">>

GroupEvents ==
    {Event("message", "", "channel", U_SENDER, FALSE, t) : t \in {TEXT_GROUP_USER, TEXT_USER_GROUP}}

DeliverGroup(p) ==
    /\ handler[p].pc \in {"idle", "done"}
    /\ delivered < MaxGroupEvents
    /\ \E ev \in GroupEvents : handler' = [handler EXCEPT ![p] = Receive(handler[p], ev)]
    /\ delivered' = delivered + 1
    /\ UNCHANGED <<conv, clock, faults, codec>>

NextGroup ==
    \E p \in Workers :
        \/ DeliverGroup(p)
        \/ WordUser(p)
        \/ WordGroup(p)
        \/ Member(p)
        \/ Get(p)
        \/ Post(p)
        \/ Delete(p)

SpecGroup == InitSeq /\ [][NextGroup]_vars

(***************************************************************************)
(* The properties.                                                         *)
(***************************************************************************)
Active(h) == h.pc \notin {"off", "idle"}

Greatest(S) == CHOOSE x \in S : \A y \in S : y <= x

\* the index of the last call of that kind in a handler's calls, or 0
LastIndex(calls, op) ==
    LET at == {i \in 1..Len(calls) : calls[i].op = op}
    IN  IF at = {} THEN 0 ELSE Greatest(at)

LastCall(h) == h.calls[Len(h.calls)]

\* the step of worker p appends a call to its calls
Calls(p, op) ==
    /\ Active(handler[p]) /\ Active(handler'[p])
    /\ handler'[p].ev = handler[p].ev
    /\ Len(handler'[p].calls) = Len(handler[p].calls) + 1
    /\ LastCall(handler'[p]).op = op

Front(s) == SubSeq(s, 1, Len(s) - 1)

Last(s) == s[Len(s)]

\* the text of the message get_latest_tasklist takes as the record, or ""
LatestText(messages) ==
    LET at == {i \in 1..Len(messages) : messages[i].ts = GetLatest(messages).old_ts}
    IN  IF at = {} THEN <<>> ELSE messages[Least(at)].text

RecordCount(messages) ==
    Cardinality({i \in 1..Len(messages) : messages[i].bot /\ IsRecord(messages[i].text)})

----
\* C2: the assignment of a worker whose last get and post both succeeded
Committed(h) ==
    /\ Active(h) /\ h.op = "add"
    /\ LastIndex(h.calls, "history") > 0
    /\ LastIndex(h.calls, "post") > LastIndex(h.calls, "history")
    /\ h.calls[LastIndex(h.calls, "history")].ok
    /\ h.calls[LastIndex(h.calls, "post")].ok

CommitTs(h) == h.calls[LastIndex(h.calls, "post")].ts

\* two assignments to one recipient that read the same prior record; p's post came first
Raced(p, q) ==
    /\ p # q
    /\ Committed(handler[p]) /\ Committed(handler[q])
    /\ handler[p].user_id = handler[q].user_id
    /\ handler[p].old_ts # 0
    /\ handler[p].old_ts = handler[q].old_ts
    /\ CommitTs(handler[p]) < CommitTs(handler[q])

----
\* every delete of a worker follows its own successful post and targets what its get read
C3_DeleteAfterPost ==
    \A p \in Workers :
        Active(handler[p]) =>
            \A i \in 1..Len(handler[p].calls) :
                handler[p].calls[i].op = "delete" =>
                    /\ i > 2
                    /\ handler[p].calls[i - 1].op = "post"
                    /\ handler[p].calls[i - 1].ok
                    /\ handler[p].calls[i - 2].op = "history"
                    /\ handler[p].calls[i - 2].ts = handler[p].calls[i].ts
                    /\ handler[p].calls[i].ts # 0

\* a post that fails leaves every conversation as it was, and no delete follows
C3_FailedPost(p) ==
    (Calls(p, "post") /\ ~LastCall(handler'[p]).ok) =>
        /\ conv' = conv
        /\ handler'[p].pc # "delete"
        /\ GetLatest(conv'[handler[p].user_id]).old_ts = handler[p].old_ts
           \/ ~handler[p].calls[LastIndex(handler[p].calls, "history")].ok

\* a post that succeeds is followed by the delete exactly when get returned a record
C3_GoodPost(p) ==
    (Calls(p, "post") /\ LastCall(handler'[p]).ok) =>
        (handler'[p].pc = "delete") = (handler[p].old_ts # 0)

\* C3: with events handled one at a time, a commit posts the new record before it
\* attempts a delete, deletes only after a successful post and only a record get
\* returned, and after a failed post nothing is deleted and the record get returned is
\* still the one the next get returns.
C3_CommitOrder ==
    /\ []C3_DeleteAfterPost
    /\ [][\A p \in Workers : C3_FailedPost(p) /\ C3_GoodPost(p)]_vars

C3_Witness ==
    \E p \in Workers :
        /\ handler[p].pc = "done"
        /\ handler[p].calls # <<>>
        /\ LastCall(handler[p]) = Call("post", 0, FALSE)
        /\ handler[p].old_ts # 0
        /\ GetLatest(conv[handler[p].user_id]).old_ts = handler[p].old_ts

----
\* C4 (as claimed): the handling of every payload ends in an acknowledgment.
C4_AlwaysAcknowledged ==
    \A p \in Workers : handler[p].pc = "done" => handler[p].resp \in {"ok", "challenge"}

----
\* C5 (as claimed): an event that comes from the bot itself is acknowledged without a
\* get, a post or a delete, and without an assignment.
C5_BotEventIgnored ==
    \A p \in Workers :
        (Active(handler[p]) /\ handler[p].ev.bot) =>
            /\ handler[p].pc = "done"
            /\ handler[p].resp = "ok"
            /\ handler[p].calls = <<>>
            /\ handler[p].requests = <<>>

----
\* C6 (as claimed): the message get returns as the record, which is the target of the
\* commit's delete, is a message of the bot.
C6_RecordIsBotAuthored ==
    \A p \in Workers :
        (Active(handler[p]) /\ handler[p].old_ts # 0) => handler[p].old_bot

----
\* a removal whose position is outside [1, length] of a non-empty list
OutOfRange(p) ==
    /\ handler[p].op = "remove"
    /\ GetLatest(conv[handler[p].user_id]).tasks # <<>>
    /\ handler[p].task_num \notin 1..Len(GetLatest(conv[handler[p].user_id]).tasks)

\* after its get such a removal is about to post the out-of-range notice
C7_Dispatch(p) ==
    (Calls(p, "history") /\ LastCall(handler'[p]).ok /\ OutOfRange(p)) =>
        /\ handler'[p].pc = "notice"
        /\ handler'[p].notice = OutOfRangeNotice(handler[p].task_num)

NoticeStep(p) == Calls(p, "notice") /\ handler[p].notice # NO_TASKS_NOTICE

\* the notice is the only change: no record is posted, no message is deleted
C7_Frame(p) ==
    NoticeStep(p) =>
        /\ handler'[p].pc = "done"
        /\ handler'[p].calls = Append(handler[p].calls, LastCall(handler'[p]))
        /\ IF LastCall(handler'[p]).ok
           THEN conv' = [conv EXCEPT ![handler[p].user_id] =
                            PostMessage(@, clock, OutOfRangeNotice(handler[p].task_num))]
           ELSE conv' = conv

\* the next get returns the record and the list that this removal's get returned
C7_SameGet(p) ==
    /\ GetLatest(conv'[handler[p].user_id]).old_ts = handler[p].old_ts
    /\ GetLatest(conv'[handler[p].user_id]).tasks = handler[p].tasks

\* the place of the record among the messages, most recent first
PlaceOf(messages, ts) == Least({i \in 1..Len(messages) : messages[i].ts = ts})

\* C7 (as claimed): an out-of-range removal posts the notice and changes nothing else,
\* and the next get returns the same record and list (stated here of a record that the
\* bot wrote).
C7_OutOfRangeUnchanged ==
    [][\A p \in Workers :
          /\ C7_Dispatch(p)
          /\ C7_Frame(p)
          /\ (NoticeStep(p) /\ handler[p].old_bot) => C7_SameGet(p)]_vars

\* C7 (amended): an out-of-range removal posts the notice and changes nothing else, and
\* the next get returns the same record and list unless the notice pushes the record
\* out of the HISTORY_LIMIT most recent messages.
C7_OutOfRangeUnchangedInWindow ==
    [][\A p \in Workers :
          /\ C7_Dispatch(p)
          /\ C7_Frame(p)
          /\ (/\ NoticeStep(p)
              /\ \/ conv' = conv
                 \/ PlaceOf(conv[handler[p].user_id], handler[p].old_ts) < HISTORY_LIMIT)
             => C7_SameGet(p)]_vars

C7_Witness ==
    \E p \in Workers :
        /\ handler[p].pc = "done"
        /\ handler[p].op = "remove"
        /\ handler[p].calls # <<>>
        /\ LastCall(handler[p]).op = "notice" /\ LastCall(handler[p]).ok
        /\ handler[p].tasks # <<>>
        /\ handler[p].task_num = Len(handler[p].tasks) + 1
        /\ conv[handler[p].user_id][1].text = OutOfRangeNotice(handler[p].task_num)
        /\ GetLatest(conv[handler[p].user_id]).old_ts = handler[p].old_ts
        /\ GetLatest(conv[handler[p].user_id]).tasks = handler[p].tasks

----
\* the record of a list after a removal: the annotation, a blank line, the list
AnnotatedRecord(tasks, removed) ==
    REMOVED_MARK \o <<" ">> \o removed \o <<"\n", "\n">> \o
    (IF tasks = <<>> THEN SENTINEL
     ELSE HEADER \o <<"\n">> \o
          Join(<<"\n">>, [i \in 1..Len(tasks) |-> IntToStr(i) \o <<".", " ">> \o tasks[i]]))

\* a removal whose position is in [1, length]
InRange(p) ==
    /\ handler[p].op = "remove"
    /\ handler[p].task_num \in 1..Len(GetLatest(conv[handler[p].user_id]).tasks)

Without(tasks, k) == [i \in 1..(Len(tasks) - 1) |-> IF i < k THEN tasks[i] ELSE tasks[i + 1]]

\* after its get such a removal holds the list without the k-th task, and that task
C8_Removes(p) ==
    (Calls(p, "history") /\ LastCall(handler'[p]).ok /\ InRange(p)) =>
        /\ handler'[p].pc = "post"
        /\ handler'[p].tasks =
              Without(GetLatest(conv[handler[p].user_id]).tasks, handler[p].task_num)
        /\ handler'[p].removed_task =
              <<GetLatest(conv[handler[p].user_id]).tasks[handler[p].task_num]>>

\* the record it posts is that list numbered from 1 under the annotation
C8_Commits(p) ==
    (Calls(p, "post") /\ LastCall(handler'[p]).ok /\ handler[p].op = "remove"
        /\ handler[p].old_bot) =>
        /\ conv'[handler[p].user_id][1].text =
              AnnotatedRecord(handler[p].tasks, handler[p].removed_task[1])
        /\ GetLatest(conv'[handler[p].user_id]).old_ts = LastCall(handler'[p]).ts
        /\ GetLatest(conv'[handler[p].user_id]).tasks = handler[p].tasks

\* C8 (as claimed): a removal with a position in [1, length] commits the list without
\* that task, renumbered, with the removed task's text as the annotation; the next get
\* returns that list, the empty list when the only task was removed (the commit stated
\* here of a record that the bot wrote).
C8_RemovalCommits == [][\A p \in Workers : C8_Removes(p) /\ C8_Commits(p)]_vars

----
\* C9 (as claimed): with events handled one at a time and no failing call, after each
\* completed operation a conversation holds at most one record.
C9_AtMostOneRecord ==
    (faults = 0 /\ \A p \in Workers : handler[p].pc \in {"off", "idle", "done"})
    => \A u \in DmUsers : RecordCount(conv[u]) <= 1

----
\* the identifier of a user token: what is between "<@" and ">", cut at a "|"
TokenIdentifier(word) == BeforeFirst(SubSeq(word, 3, Len(word) - 1), "|")

\* the members the lookup of the group token at word i returned
LookedUp(lookups, i) ==
    LET at == {j \in 1..Len(lookups) : lookups[j].wi = i}
    IN  IF at = {} THEN <<>> ELSE lookups[Least(at)].members

\* the candidates of word i
Candidates(words, lookups, i) ==
    IF IsUserToken(words[i]) THEN <<TokenIdentifier(words[i])>>
    ELSE IF IsGroupToken(words[i]) THEN LookedUp(lookups, i)
    ELSE <<>>

\* one request per token and allow-listed candidate, in the order of the tokens
RECURSIVE ExpectedRequests(_, _, _)
ExpectedRequests(words, lookups, i) ==
    IF i > Len(words) THEN <<>>
    ELSE LET cs == SelectSeq(Candidates(words, lookups, i), LAMBDA c : c \in ALLOWED_USERS)
         IN  [j \in 1..Len(cs) |-> [wi |-> i, user_id |-> cs[j]]] \o
             ExpectedRequests(words, lookups, i + 1)

\* C10: when a message has been handled, the assignments made are one per mention
\* token and allow-listed candidate, in token order; a candidate outside the allow-list
\* gives none, and every assignment whose calls succeed posts its own record.
C10_MentionResolution ==
    \A p \in Workers :
        (handler[p].pc = "done" /\ Classify(handler[p].ev) = "mentions") =>
            /\ handler[p].requests =
                  ExpectedRequests(Split(handler[p].ev.text), handler[p].lookups, 1)
            /\ faults = 0 =>
                  Cardinality({i \in 1..Len(handler[p].calls) :
                                  handler[p].calls[i].op = "post" /\ handler[p].calls[i].ok})
                  = Len(handler[p].requests)

C10_Witness ==
    \E p \in Workers :
        /\ handler[p].pc = "done"
        /\ handler[p].ev.text = TEXT_B
        /\ handler[p].requests =
              <<[wi |-> 1, user_id |-> U_ALLOWED], [wi |-> 3, user_id |-> U_ALLOWED]>>
        /\ Len(GetLatest(conv[U_ALLOWED]).tasks) >= 2
        /\ conv[U_OTHER] = <<>>

----
\* worker p has handled, without a failing call, the second of two deliveries of one
\* mention event that names one recipient once; its get returned the record that the
\* first delivery posted
Duplicate(p) ==
    /\ handler[p].pc = "done"
    /\ faults = 0
    /\ handler[p].prev # <<>>
    /\ handler[p].prev[1].ev = handler[p].ev
    /\ ~handler[p].ev.bot
    /\ Classify(handler[p].ev) = "mentions"
    /\ Len(handler[p].requests) = 1
    /\ Len(handler[p].prev[1].requests) = 1
    /\ LastIndex(handler[p].prev[1].calls, "post") > 0
    /\ handler[p].old_ts =
          handler[p].prev[1].calls[LastIndex(handler[p].prev[1].calls, "post")].ts

\* C11 (as claimed): when one mention event has been delivered twice and both deliveries
\* have been handled without failure, the list of the recipient's latest record is the
\* list before the first delivery followed by the task twice.
C11_DuplicateAddsTwice ==
    \A p \in Workers :
        Duplicate(p) =>
            GetLatest(conv[handler[p].user_id]).tasks =
                Front(handler[p].prev[1].tasks) \o
                <<Last(handler[p].prev[1].tasks), Last(handler[p].prev[1].tasks)>>

\* the case of C11 for a message of one line
C11_OneLineCase ==
    \E p \in Workers :
        /\ Duplicate(p)
        /\ handler[p].ev.text = TEXT_A
        /\ Len(GetLatest(conv[handler[p].user_id]).tasks) = 2

----
\* the places of the messages with a record marker, most recent first
RecordPlaces(messages) == {i \in 1..Len(messages) : IsRecord(messages[i].text)}

\* the places get scans
Window(messages) == 1..Min(Len(messages), HISTORY_LIMIT)

\* a get that lists the history returns the first message of the window with a record
\* marker and the list decoded from it, or no record and the empty list
C12_GetResult(p) ==
    (Calls(p, "history") /\ LastCall(handler'[p]).ok) =>
        LET messages == conv[handler[p].user_id]
            seen == RecordPlaces(messages) \cap Window(messages)
            found == IF seen = {} THEN <<>> ELSE Decode(messages[Least(seen)].text)
        IN  /\ handler'[p].old_ts = IF seen = {} THEN 0 ELSE messages[Least(seen)].ts
            /\ handler[p].op = "add" => handler'[p].tasks = Append(found, handler[p].new_task)
            /\ handler[p].op = "remove" =>
                  \/ handler'[p].pc = "notice" /\ handler'[p].tasks = found
                  \/ handler'[p].pc = "post" /\ Len(handler'[p].tasks) = Len(found) - 1

\* the get of worker p listed the history and found no record, and a record lies outside
\* the window
RecordOutsideWindow(p) ==
    /\ handler[p].old_ts = 0
    /\ handler[p].calls[LastIndex(handler[p].calls, "history")].ok
    /\ RecordPlaces(conv[handler[p].user_id]) # {}
    /\ RecordPlaces(conv[handler[p].user_id]) \cap Window(conv[handler[p].user_id]) = {}

\* the assignment that follows commits a list of one task and attempts no delete
C12_CommitsOneTask(p) ==
    (Calls(p, "post") /\ LastCall(handler'[p]).ok /\ handler[p].op = "add"
        /\ RecordOutsideWindow(p)) =>
        /\ conv'[handler[p].user_id] =
              <<[ts |-> clock, bot |-> TRUE,
                 text |-> HEADER \o <<"\n", "1", ".", " ">> \o handler[p].new_task]>>
              \o conv[handler[p].user_id]
        /\ handler'[p].pc # "delete"

\* C12: get scans the HISTORY_LIMIT most recent messages, most recent first, and returns
\* the first one with a record marker and its decoded list, or no record and the empty
\* list; with a record outside the window only, the assignment commits a list of one
\* task and deletes nothing.
C12_BoundedWindow ==
    [][\A p \in Workers : C12_GetResult(p) /\ C12_CommitsOneTask(p)]_vars

C12_Witness ==
    \E p \in Workers :
        /\ handler[p].pc = "done"
        /\ handler[p].op = "add"
        /\ Len(handler[p].calls) = 2
        /\ handler[p].calls[1] = Call("history", 0, TRUE)
        /\ handler[p].calls[2].op = "post" /\ handler[p].calls[2].ok
        /\ Len(conv[handler[p].user_id]) > HISTORY_LIMIT
        /\ RecordPlaces(conv[handler[p].user_id]) = {1, HISTORY_LIMIT + 2}
        /\ GetLatest(conv[handler[p].user_id]).tasks = <<handler[p].new_task>>

----
\* the gets a handler has made: each a failed open or a listing of the history
Gets(h) == {i \in 1..Len(h.calls) : h.calls[i].op \in {"open", "history"}}

\* the members after the current one that are allow-listed, when at a group token
MembersLeft(h) ==
    IF h.members = <<>> THEN {}
    ELSE {j \in (h.mi + 1)..Len(h.members) : h.members[j] \in ALLOWED_USERS}

\* the words after the current one that are a group token or an allow-listed user token
WordsLeft(h) ==
    {j \in (h.wi + 1)..Len(h.words) :
        \/ IsGroupToken(h.words[j])
        \/ IsUserToken(h.words[j]) /\ TokenIdentifier(h.words[j]) \in ALLOWED_USERS}

\* where the handling goes on after the assignment or removal at hand
GoesOn(h, g) ==
    IF h.op = "remove" THEN g.pc = "done" /\ g.resp = "ok"
    ELSE IF MembersLeft(h) # {}
    THEN g.pc = "member" /\ g.mi = Least(MembersLeft(h)) /\ g.wi = h.wi
    ELSE IF WordsLeft(h) # {}
    THEN g.pc = "word" /\ g.wi = Least(WordsLeft(h))
    ELSE g.pc = "done" /\ g.resp = "ok"

\* a failed open changes no conversation, is the only call of the get, and the handling
\* goes on with the next token
C14_Abandoned(p) ==
    Calls(p, "open") =>
        /\ conv' = conv
        /\ handler'[p].calls = Append(handler[p].calls, Call("open", 0, FALSE))
        /\ handler'[p].requests = handler[p].requests
        /\ GoesOn(handler[p], handler'[p])

\* one get per assignment or removal: none is made again
C14_NoRetry ==
    \A p \in Workers :
        Active(handler[p]) =>
            IF handler[p].op = "remove" THEN Cardinality(Gets(handler[p])) <= 1
            ELSE /\ Cardinality(Gets(handler[p])) <= Len(handler[p].requests)
                 /\ handler[p].pc = "done" =>
                       Cardinality(Gets(handler[p])) = Len(handler[p].requests)

\* C14: when the direct conversation cannot be opened the assignment or removal is
\* abandoned: no history is read, nothing is posted or deleted, the get is not made again,
\* and the remaining tokens of the message are processed.
C14_OpenFailure == []C14_NoRetry /\ [][\A p \in Workers : C14_Abandoned(p)]_vars

C14_Witness ==
    \E p \in Workers :
        /\ handler[p].pc = "done"
        /\ handler[p].ev.text = TEXT_B
        /\ Len(handler[p].calls) >= 3
        /\ handler[p].calls[1] = Call("open", 0, FALSE)
        /\ handler[p].calls[2].op = "history" /\ handler[p].calls[2].ok
        /\ handler[p].calls[3].op = "post" /\ handler[p].calls[3].ok
        /\ Len(handler[p].requests) = 2
        /\ Len(GetLatest(conv[U_ALLOWED]).tasks) = 1

----
\* the last call of the handler is a delete that failed
DeleteFailed(h) ==
    /\ Active(h)
    /\ h.calls # <<>>
    /\ LastCall(h) = Call("delete", h.old_ts, FALSE)

\* the record the handler posted before its last call
PostedTs(h) == h.calls[Len(h.calls) - 1].ts

\* a failed delete changes nothing and the handling goes on: no second delete, no
\* delete of the new record
C15_NoRetry(p) ==
    (Calls(p, "delete") /\ ~LastCall(handler'[p]).ok) =>
        /\ conv' = conv
        /\ GoesOn(handler[p], handler'[p])

\* the new and the prior record are both in the conversation
C15_BothRemain(p) ==
    DeleteFailed(handler[p]) =>
        /\ handler[p].calls[Len(handler[p].calls) - 1].op = "post"
        /\ handler[p].calls[Len(handler[p].calls) - 1].ok
        /\ HasMessage(conv[handler[p].im_channel], handler[p].old_ts)
        /\ HasMessage(conv[handler[p].im_channel], PostedTs(handler[p]))

\* C15 (as claimed): after a delete that failed the commit is not retried nor rolled
\* back, both records remain, and get returns the newly posted record (stated here of a
\* prior record that the bot wrote).
C15_DeleteFailure ==
    /\ [](\A p \in Workers :
            /\ C15_BothRemain(p)
            /\ (DeleteFailed(handler[p]) /\ handler[p].old_bot) =>
                  GetLatest(conv[handler[p].im_channel]).old_ts = PostedTs(handler[p]))
    /\ [][\A p \in Workers : C15_NoRetry(p)]_vars

\* C15 (amended): after a delete that failed the commit is not retried nor rolled back,
\* both records remain, and get returns the newly posted record as long as it is among
\* the HISTORY_LIMIT most recent messages, and no record once it is not: never the prior
\* record.
C15_DeleteFailureInWindow ==
    /\ [](\A p \in Workers :
            /\ C15_BothRemain(p)
            /\ DeleteFailed(handler[p]) =>
                  GetLatest(conv[handler[p].im_channel]).old_ts =
                      IF PlaceOf(conv[handler[p].im_channel], PostedTs(handler[p]))
                            <= HISTORY_LIMIT
                      THEN PostedTs(handler[p]) ELSE 0)
    /\ [][\A p \in Workers : C15_NoRetry(p)]_vars

C15_Witness ==
    \E p \in Workers :
        /\ DeleteFailed(handler[p])
        /\ handler[p].pc = "done"
        /\ HasMessage(conv[handler[p].im_channel], handler[p].old_ts)
        /\ GetLatest(conv[handler[p].im_channel]).old_ts = PostedTs(handler[p])
        /\ RecordCount(conv[handler[p].im_channel]) = 2

----
\* the step of worker p is a membership lookup that fails
LookupFails(p) ==
    /\ handler[p].pc = "word"
    /\ IsGroupToken(handler[p].words[handler[p].wi])
    /\ Len(handler'[p].lookups) = Len(handler[p].lookups) + 1
    /\ faults' = faults + 1

\* the failed lookup is recorded as an empty membership, makes no assignment and no call
\* on a conversation, and the handling goes on at the next token
C16_NoMembers(p) ==
    LookupFails(p) =>
        /\ Last(handler'[p].lookups).members = <<>>
        /\ Last(handler'[p].lookups).wi = handler[p].wi
        /\ conv' = conv
        /\ handler'[p].calls = handler[p].calls
        /\ handler'[p].requests = handler[p].requests
        /\ IF WordsLeft(handler[p]) # {}
           THEN handler'[p].pc = "word" /\ handler'[p].wi = Least(WordsLeft(handler[p]))
           ELSE handler'[p].pc = "done" /\ handler'[p].resp = "ok"

\* when the message has been handled, a group token with no members has no assignment and
\* every allow-listed user token has one, also after such a group token
C16_RestProcessed ==
    \A p \in Workers :
        (handler[p].pc = "done" /\ Classify(handler[p].ev) = "mentions") =>
            \A j \in 1..Len(handler[p].words) :
                LET n == Cardinality({i \in 1..Len(handler[p].requests) :
                                          handler[p].requests[i].wi = j})
                IN  /\ (IsGroupToken(handler[p].words[j])
                            /\ LookedUp(handler[p].lookups, j) = <<>>) => n = 0
                    /\ (IsUserToken(handler[p].words[j])
                            /\ TokenIdentifier(handler[p].words[j]) \in ALLOWED_USERS) => n = 1

\* C16: a membership lookup that fails counts as a group without members: the token gives
\* no assignment, no post and no delete, and the remaining tokens of the message are
\* processed as after an empty answer.
C16_LookupFailure == []C16_RestProcessed /\ [][\A p \in Workers : C16_NoMembers(p)]_vars

C16_Witness ==
    \E p \in Workers :
        /\ handler[p].pc = "done"
        /\ handler[p].ev.text = TEXT_GROUP_USER
        /\ faults = 1
        /\ handler[p].lookups # <<>>
        /\ handler[p].lookups[1].members = <<>>
        /\ handler[p].requests = <<[wi |-> 2, user_id |-> U_ALLOWED]>>
        /\ handler[p].new_task =
              NewTask(VisibleText(TEXT_GROUP_USER, Token(U_ALLOWED)), DISPLAY_NAME, PERMALINK)
        /\ \A i \in 1..Len(handler[p].calls) : handler[p].calls[i].ok
        /\ Last(GetLatest(conv[U_ALLOWED]).tasks) = handler[p].new_task

----
\* C18 (as claimed): with events handled one at a time, the record an assignment posts is
\* the list of the most recent record that get can see, in the same order, with the new
\* task as its last entry, also when the listing of the history has failed; the tasks that
\* get returned before the post are the first ones get returns after it (stated here of
\* a most recent record that the bot wrote).
C18_AssignExtends ==
    [][\A p \in Workers :
          (Calls(p, "post") /\ LastCall(handler'[p]).ok /\ handler[p].op = "add"
              /\ GetLatest(conv[handler[p].user_id]).bot) =>
              LET before == GetLatest(conv[handler[p].user_id]).tasks
                  after == GetLatest(conv'[handler[p].user_id]).tasks
              IN  /\ conv'[handler[p].user_id][1].text =
                        Encode(Append(before, handler[p].new_task), <<>>)
                  /\ Len(after) > Len(before)
                  /\ SubSeq(after, 1, Len(before)) = before]_vars

\* the case of C18 when every listing of the history succeeds
C18_ListedCase ==
    \E p \in Workers :
        /\ handler[p].pc = "done" /\ handler[p].op = "add"
        /\ faults = 0
        /\ Len(handler[p].tasks) = 3
        /\ GetLatest(conv[handler[p].user_id]).tasks = handler[p].tasks

----
\* a delete follows the successful post and the successful listing of the same
\* operation, targets the record that listing returned and not the message just posted,
\* and the next call of the handler begins another operation
C19_DeleteCalls ==
    \A p \in Workers :
        Active(handler[p]) =>
            \A i \in 1..Len(handler[p].calls) :
                handler[p].calls[i].op = "delete" =>
                    /\ i > 2
                    /\ handler[p].calls[i - 1].op = "post" /\ handler[p].calls[i - 1].ok
                    /\ handler[p].calls[i - 1].ts # handler[p].calls[i].ts
                    /\ handler[p].calls[i - 2].op = "history" /\ handler[p].calls[i - 2].ok
                    /\ handler[p].calls[i - 2].ts = handler[p].calls[i].ts
                    /\ handler[p].calls[i].ts # 0
                    /\ i < Len(handler[p].calls) =>
                          handler[p].calls[i + 1].op \in {"open", "history"}

\* the delete step: the target is old_ts in the recipient's conversation, a record and
\* no notice; that message alone goes, and only when the call succeeds
C19_DeleteStep(p) ==
    Calls(p, "delete") =>
        LET h == handler[p]
            u == h.user_id
            t == LastCall(handler'[p]).ts
        IN  /\ t = h.old_ts /\ h.im_channel = u
            /\ t # PostedTs(handler'[p])
            /\ \A v \in DOMAIN conv : v # u => conv'[v] = conv[v]
            /\ conv'[u] = IF LastCall(handler'[p]).ok
                          THEN SelectSeq(conv[u], LAMBDA m : m.ts # t)
                          ELSE conv[u]
            /\ LastCall(handler'[p]).ok =>
                  \E i \in 1..Len(conv[u]) :
                      /\ conv[u][i].ts = t
                      /\ IsRecord(conv[u][i].text)
                      /\ conv[u][i].text # NO_TASKS_NOTICE
                      /\ \A n \in 0..9 : conv[u][i].text # OutOfRangeNotice(n)

\* a message leaves a conversation only by the successful delete of a worker whose
\* recipient owns the conversation and whose get returned that message
C19_OnlyDeletes ==
    \A u \in DOMAIN conv :
        \A i \in 1..Len(conv[u]) :
            \/ HasMessage(conv'[u], conv[u][i].ts)
            \/ \E p \in Workers :
                  /\ Calls(p, "delete") /\ LastCall(handler'[p]).ok
                  /\ handler[p].user_id = u
                  /\ handler[p].old_ts = conv[u][i].ts

\* C19: with two events handled at once, one assignment or removal issues at most one
\* delete, only after its own post succeeded; the target is the message the get of the
\* same operation returned, in the recipient's own conversation; the message just
\* posted, a notice and the messages of other conversations are never deleted.
C19_DeleteDiscipline ==
    /\ []C19_DeleteCalls
    /\ [][(\A p \in Workers : C19_DeleteStep(p)) /\ C19_OnlyDeletes]_vars

C19_Witness ==
    \E p \in Workers :
        /\ handler[p].pc = "done"
        /\ handler[p].calls # <<>>
        /\ LastCall(handler[p]) = Call("delete", handler[p].old_ts, TRUE)
        /\ HasMessage(conv[handler[p].user_id], PostedTs(handler[p]))
        /\ ~HasMessage(conv[handler[p].user_id], handler[p].old_ts)
        /\ Len(conv[handler[p].user_id]) > 1

(***************************************************************************)
(* The router on its own: one payload, classified.                         *)
(***************************************************************************)
\* texts around the removal command: lead, command, gap, number, tail
RouterTexts ==
    {lead \o cmd \o gap \o num \o tail :
        lead \in {<<>>, <<" ">>},
        cmd \in {REMOVE_COMMAND, <<"R", "e", "m", "o", "v", "e", " ", "T", "A", "S", "K">>,
                 <<"r", "e", "m", "o", "v", "e", " ", " ", "t", "a", "s", "k">>},
        gap \in {<<>>, <<" ">>, <<" ", "\n">>},
        num \in {<<>>, <<"0">>, <<"2">>, <<"0", "7">>},
        tail \in {<<>>, <<"x">>, <<" ", "x">>}}

RouterEvents ==
    {Event("message", "", ct, U_ALLOWED, FALSE, t) : ct \in {"im", "channel"}, t \in RouterTexts}
    \cup {Event(ty, st, "im", U_ALLOWED, FALSE, TEXT_REMOVE_2) :
            ty \in {"message", "reaction_added"}, st \in {"", "message_changed"}}
    \cup {[Event(ty, st, "im", U_ALLOWED, FALSE, TEXT_REMOVE_2) EXCEPT !.challenge = TRUE] :
            ty \in {"message", "reaction_added"}, st \in {"", "message_changed"}}

\* a request has arrived at worker 1
InitRouter ==
    /\ InitConversations
    /\ \E ev \in RouterEvents :
          handler = [p \in Workers |-> IF p = 1 THEN [Idle EXCEPT !.ev = ev] ELSE Off]

\* slack_events up to its first call of the platform
Route(p) ==
    /\ handler[p].pc = "idle"
    /\ handler' = [handler EXCEPT ![p] = Receive(Idle, handler[p].ev)]
    /\ UNCHANGED <<conv, clock, delivered, faults, codec>>

NextRouter == \E p \in Workers : Route(p)

SpecRouter == InitRouter /\ [][NextRouter]_vars

\* the first and the last place of the number in a trimmed text that begins, whatever the
\* case, with the command, then whitespace, then digits
NumberPlaces(s) ==
    {ij \in (1..Len(s)) \X (1..Len(s)) :
        /\ ij[1] > Len(REMOVE_COMMAND) + 1
        /\ ij[1] <= ij[2]
        /\ LowerStr(SubSeq(s, 1, Len(REMOVE_COMMAND))) = REMOVE_COMMAND
        /\ \A k \in (Len(REMOVE_COMMAND) + 1)..(ij[1] - 1) : s[k] \in SpaceSet
        /\ \A k \in ij[1]..ij[2] : s[k] \in DigitSet
        /\ ij[2] = Len(s) \/ s[ij[2] + 1] \notin DigitSet}

NumberOf(s) == LET ij == CHOOSE x \in NumberPlaces(s) : TRUE IN StrToInt(SubSeq(s, ij[1], ij[2]))

\* the trimmed text begins with the command and a number
BeginsWithCommand(text) == NumberPlaces(Strip(text)) # {}

\* the trimmed text is the command and a number, and nothing else (the number any run of
\* digits: position 0 is a removal too, one that is out of range)
IsCommand(text) ==
    /\ BeginsWithCommand(text)
    /\ \A ij \in NumberPlaces(Strip(text)) : ij[2] = Len(Strip(text))

Routed(h) == h.pc \notin {"off", "idle"}

\* the branches before the removal test
C13_Ignorable(h) ==
    /\ h.ev.challenge => h.pc = "done" /\ h.resp = "challenge" /\ h.op = ""
    /\ (~h.ev.challenge /\ (h.ev.type # "message" \/ h.ev.subtype # "")) =>
          h.pc = "done" /\ h.resp = "ok" /\ h.op = ""

Plain(h) == ~h.ev.challenge /\ h.ev.type = "message" /\ h.ev.subtype = ""

\* C13 (as claimed): a challenge is echoed; otherwise a non-message event or one with a
\* subtype is a no-op; otherwise the event is a removal exactly when it is in a direct
\* conversation and its trimmed text is the command with a number; every other plain
\* message goes to the mentions and removes nothing.
C13_RouterAsClaimed ==
    \A p \in Workers :
        Routed(handler[p]) =>
            /\ C13_Ignorable(handler[p])
            /\ Plain(handler[p]) =>
                  /\ (handler[p].op = "remove") =
                        (handler[p].ev.channel_type = "im" /\ IsCommand(handler[p].ev.text))
                  /\ handler[p].op # "remove" => handler[p].words = Split(handler[p].ev.text)

\* what slack_events does: the event is a removal exactly when it is in a direct
\* conversation and its trimmed text begins with the command, whitespace and digits; the
\* position is the number the digits spell, and what follows the digits is ignored
RouterPrefix ==
    \A p \in Workers :
        Routed(handler[p]) =>
            /\ C13_Ignorable(handler[p])
            /\ Plain(handler[p]) =>
                  /\ (handler[p].op = "remove") =
                        (handler[p].ev.channel_type = "im"
                            /\ BeginsWithCommand(handler[p].ev.text))
                  /\ handler[p].op = "remove" =>
                        /\ handler[p].pc = "get"
                        /\ handler[p].task_num = NumberOf(Strip(handler[p].ev.text))
                        /\ handler[p].user_id = handler[p].ev.user
                  /\ handler[p].op # "remove" =>
                        /\ handler[p].words = Split(handler[p].ev.text)
                        /\ handler[p].pc = "done" /\ handler[p].resp = "ok"

(***************************************************************************)
(* The task of one message: bodies around TRUNCATE_AT characters, with the *)
(* mention first, last or inside.                                          *)
(***************************************************************************)
MaxOver == 5

LONG_BODY == 250

BodyLengths == {2, LONG_BODY} \cup ((TRUNCATE_AT - MaxOver)..(TRUNCATE_AT + MaxOver))

Pad(n) == [i \in 1..n |-> "a"]

\* a text and the body that is left of it without the token
TaskCases ==
    {[text |-> Token(U_ALLOWED) \o <<" ">> \o Pad(n), body |-> Pad(n)] : n \in BodyLengths}
    \cup {[text |-> Pad(n) \o <<" ">> \o Token(U_ALLOWED) \o <<"\n">>, body |-> Pad(n)] :
             n \in BodyLengths}
    \cup {[text |-> <<"b", " ">> \o Token(U_ALLOWED) \o <<" ">> \o Pad(n - 3),
            body |-> <<"b", " ", " ">> \o Pad(n - 3)] : n \in BodyLengths \ {2}}

InitTask ==
    /\ InitConversations
    /\ \E c \in TaskCases :
          handler = [p \in Workers |->
                        IF p = 1
                        THEN [Idle EXCEPT !.ev = Event("message", "", "channel", U_SENDER, FALSE, c.text)]
                        ELSE Off]

NextTask == \E p \in Workers : Route(p) \/ WordUser(p)

SpecTask == InitTask /\ [][NextTask]_vars

\* the body as a task holds it
Stored(body) ==
    IF Len(body) <= TRUNCATE_AT THEN body
    ELSE SubSeq(body, 1, TRUNCATE_AT) \o <<".", ".", ".">>

\* C17: the body a task holds is the text without the mention token; up to TRUNCATE_AT
\* characters it is held as it is, and a longer one as its first TRUNCATE_AT characters
\* and the ellipsis.
C17_Truncation ==
    \A p \in Workers :
        handler[p].pc = "get" =>
            \A c \in TaskCases :
                handler[p].ev.text = c.text =>
                    \E name \in {DISPLAY_NAME, <<"<", "@">> \o handler[p].ev.user \o <<">">>},
                       link \in {PERMALINK, NO_LINK} :
                        handler[p].new_task =
                            Stored(c.body) \o <<" ", "(", "f", "r", "o", "m", " ">> \o name \o
                            <<")", " ", "-", " ">> \o link

C17_Witness ==
    \E p \in Workers :
        /\ handler[p].pc = "get"
        /\ Len(handler[p].ev.text) = Len(Token(U_ALLOWED)) + 1 + TRUNCATE_AT + 1
        /\ StartsWith(handler[p].new_task, Pad(TRUNCATE_AT) \o <<".", ".", ".", " ", "(">>)

(***************************************************************************)
(* The codec on its own: lists of tasks as add_task builds them, encoded   *)
(* and decoded.                                                            *)
(***************************************************************************)
MaxLen == 3

MaxTasks == 2

CodecAlphabet == {"a", "1", ".", "\n"}

RECURSIVE StringsUpTo(_)
StringsUpTo(n) ==
    IF n = 0 THEN {<<>>}
    ELSE LET shorter == StringsUpTo(n - 1)
         IN  shorter \cup {Append(s, c) : s \in shorter, c \in CodecAlphabet}

\* the tasks of message bodies of at most MaxLen characters
CodecTasks ==
    {NewTask(Truncate(Strip(raw)), DISPLAY_NAME, PERMALINK) : raw \in StringsUpTo(MaxLen)}

InitCodec ==
    /\ conv = [u \in DmUsers |-> <<>>]
    /\ clock = 1
    /\ handler = [p \in Workers |-> Off]
    /\ delivered = 0
    /\ faults = 0
    /\ codec = [CodecIdle EXCEPT !.pc = "build"]

CodecAppend ==
    /\ codec.pc = "build"
    /\ Len(codec.tasks) < MaxTasks
    /\ \E t \in CodecTasks : codec' = [codec EXCEPT !.tasks = Append(@, t)]
    /\ UNCHANGED <<conv, clock, handler, delivered, faults>>

CodecEncode ==
    /\ codec.pc = "build"
    /\ \E removed \in {<<>>} \cup {<<t>> : t \in CodecTasks} :
          codec' = [codec EXCEPT !.pc = "encoded", !.removed = removed,
                                 !.body = Encode(codec.tasks, removed)]
    /\ UNCHANGED <<conv, clock, handler, delivered, faults>>

CodecDecode ==
    /\ codec.pc = "encoded"
    /\ codec' = [codec EXCEPT !.pc = "decoded", !.decoded = Decode(codec.body)]
    /\ UNCHANGED <<conv, clock, handler, delivered, faults>>

NextCodec == CodecAppend \/ CodecEncode \/ CodecDecode

SpecCodec == InitCodec /\ [][NextCodec]_vars

\* C1 (as claimed): every list of tasks is read back, in order, from the body it is posted as,
\* with or without a removal annotation; the empty list is read back as empty.
C1_RoundTrip == codec.pc = "decoded" => codec.decoded = codec.tasks
====
